---- MODULE Spec2Model ----
(***************************************************************************)
(* A model of mitiq's Observable (src/mitiq/observable/observable.py) and  *)
(* of the training-circuit generator for Clifford data regression that     *)
(* src/mitiq/cdr/test_clifford_training_data.py exercises.                 *)
(*                                                                         *)
(* Observable: one object, constructed once from a tuple of PauliStrings,  *)
(* on which partition(), matrix(), _measure_in(circuit) and the three      *)
(* properties are called in any sequence.  The loops of partition() and    *)
(* matrix() iterate over a Python set, so each iteration takes any term    *)
(* that is left.  PauliString (mitiq/observable/pauli.py) is modelled from  *)
(* the specification.                                                      *)
(*                                                                         *)
(* Generator: clifford_training_data.py is modelled from the specification *)
(* and from what its tests assert; the number of rotations kept is the     *)
(* tests' int(fraction_non_clifford * non_cliffords).                      *)
(***************************************************************************)
EXTENDS Integers, Sequences, FiniteSets, TLC

VARIABLES
    paulis,     \* Observable._paulis: the set of terms
    nterms,     \* Observable._nterms
    pc,         \* "idle", or the method whose loop is running
    work,       \* partition(): the local set `paulis` (the deep copy)
    plists,     \* partition(): the local list of lists `plists`
    pauli,      \* partition(): the local `pauli`, the term popped last
    iter,       \* partition(): the number of loop iterations run so far
    mwork,      \* matrix(): the terms the for loop has still to visit
    matrix,     \* matrix(): the local `matrix`
    circuit,    \* _measure_in(): the caller's circuit object
    ret,        \* the value the last call returned
    built,      \* history: the term set as __init__ built it
    nargs,      \* history: the number of terms __init__ was given
    source,     \* generate_training_circuits: the caller's circuit
    given,      \* history: the circuit as the caller passed it
    num,        \* generate_training_circuits: num_training_circuits
    frac,       \* fraction_non_clifford, in units of 1 / FDen
    method_select,
    method_replace,
    training,   \* the list of training circuits built so far
    columns,    \* _map_to_near_clifford: what _select returned last
    replaced,   \* _map_to_near_clifford: what _replace returned last
    gpc         \* "run" while generate_training_circuits loops, then "done"

obsVars == <<paulis, nterms, pc, work, plists, pauli, iter, mwork, matrix,
             circuit, ret, built, nargs>>

cdrVars == <<source, given, num, frac, method_select, method_replace,
             training, columns, replaced, gpc>>

vars == <<obsVars, cdrVars>>

----------------------------------------------------------------------------
(* Bounds *)

MaxTerms == 4
MaxSignedTerms == 3
MaxGates == 2
MaxTraining == 1
FDen == 4

Qubits == {0, 1}
Letters == {"I", "X", "Y", "Z"}

None == [op |-> "none"]

----------------------------------------------------------------------------
(* PauliString: an assignment of I, X, Y, Z to qubit indices with a sign. *)
(* Identity factors carry no qubit: the support is the non-identity part.  *)

UnitTerms == [ops : [Qubits -> Letters], coeff : {1}]
SignedTerms == [ops : [Qubits -> Letters], coeff : {1, -1}]

Support(p) == {q \in Qubits : p.ops[q] # "I"}

CanBeMeasuredWith(a, b) ==
    \A q \in Support(a) \cap Support(b) : a.ops[q] = b.ops[q]

----------------------------------------------------------------------------
(* Helpers *)

Range(s) == {s[k] : k \in DOMAIN s}

Min(S) == CHOOSE x \in S : \A y \in S : x <= y

RECURSIVE Sorted(_)
Sorted(S) == IF S = {} THEN <<>> ELSE <<Min(S)>> \o Sorted(S \ {Min(S)})

RECURSIVE Pow2(_)
Pow2(n) == IF n = 0 THEN 1 ELSE 2 * Pow2(n - 1)

RECURSIVE Perms(_)
Perms(S) ==
    IF S = {} THEN {<<>>}
    ELSE UNION {{<<x>> \o t : t \in Perms(S \ {x})} : x \in S}

----------------------------------------------------------------------------
(* Observable.__init__, nterms, _qubits, qubit_indices, nqubits *)

ObservableInit(args) == {args[k] : k \in DOMAIN args}

QubitsOf(ps) == UNION {Support(p) : p \in ps}

QubitIndices(ps) == Sorted(QubitsOf(ps))

NQubits(ps) == Len(QubitIndices(ps))

----------------------------------------------------------------------------
(* Observable.partition *)

AllCompatible(p, plist) ==
    \A k \in 1 .. Len(plist) : CanBeMeasuredWith(p, plist[k])

\* Mutants of Place: any() for all(); the new group appended whether or not
\* the term was added; the last group that fits instead of the first; only
\* the first group tried; no group tried.
PlaceAny(pl, p) ==
    LET fits == {i \in 1 .. Len(pl) :
                    \E k \in 1 .. Len(pl[i]) : CanBeMeasuredWith(p, pl[i][k])}
    IN  IF fits # {}
        THEN [pl EXCEPT ![Min(fits)] = Append(@, p)]
        ELSE Append(pl, <<p>>)

PlaceAndAppend(pl, p) ==
    LET fits == {i \in 1 .. Len(pl) : AllCompatible(p, pl[i])}
    IN  IF fits # {}
        THEN Append([pl EXCEPT ![Min(fits)] = Append(@, p)], <<p>>)
        ELSE Append(pl, <<p>>)

PlaceLastFit(pl, p) ==
    LET fits == {i \in 1 .. Len(pl) : AllCompatible(p, pl[i])}
    IN  IF fits # {}
        THEN [pl EXCEPT ![CHOOSE i \in fits : \A j \in fits : j <= i] =
                Append(@, p)]
        ELSE Append(pl, <<p>>)

PlaceFirstOnly(pl, p) ==
    IF Len(pl) > 0 /\ AllCompatible(p, pl[1])
    THEN [pl EXCEPT ![1] = Append(@, p)]
    ELSE Append(pl, <<p>>)

PlaceNewGroup(pl, p) == Append(pl, <<p>>)

\* The body of one iteration after the pop: the for loop with its break, and
\* the `if not added` that follows it.
Place(pl, p) ==
    LET fits == {i \in 1 .. Len(pl) : AllCompatible(p, pl[i])}
    IN  IF fits # {}
        THEN [pl EXCEPT ![Min(fits)] = Append(@, p)]
        ELSE Append(pl, <<p>>)

\* Mutant of Pop: the term is read and not removed.
PopKeeps(w, p) == w

\* paulis.pop(): what is left of the local set.
Pop(w, p) == w \ {p}

\* Mutant of SelfAfterPop: the local set is self._paulis itself.
SelfAfterPopAliased(self, p) == self \ {p}

\* What paulis.pop() leaves of self._paulis: the local set is a deep copy,
\* so nothing changes.
SelfAfterPop(self, p) == self

PartitionResult(pl) == {Range(pl[k]) : k \in 1 .. Len(pl)}

RECURSIVE Greedy(_, _)
Greedy(ord, k) == IF k = 0 THEN <<>> ELSE Place(Greedy(ord, k - 1), ord[k])

\* The lists partition() ends with when the set yields its terms in `ord`.
PartitionOf(ord) == Greedy(ord, Len(ord))

PartitionCall ==
    /\ pc = "idle"
    /\ pc' = "partition"
    /\ plists' = <<>>
    /\ work' = paulis
    /\ pauli' = None
    /\ iter' = 0
    /\ UNCHANGED <<paulis, nterms, mwork, matrix, circuit, ret, built, nargs, cdrVars>>

PartitionStep ==
    /\ pc = "partition"
    /\ work # {}
    /\ \E p \in work :
        /\ work' = Pop(work, p)
        /\ paulis' = SelfAfterPop(paulis, p)
        /\ pauli' = p
        /\ plists' = Place(plists, p)
    /\ iter' = iter + 1
    /\ UNCHANGED <<nterms, pc, mwork, matrix, circuit, ret, built, nargs, cdrVars>>

PartitionReturn ==
    /\ pc = "partition"
    /\ work = {}
    /\ pc' = "returned"
    /\ ret' = [op |-> "partition", val |-> PartitionResult(plists)]
    /\ UNCHANGED <<paulis, nterms, work, plists, pauli, iter, mwork, matrix,
                   circuit, built, nargs, cdrVars>>

----------------------------------------------------------------------------
(* Matrices with Gaussian-integer entries <<re, im>>, rows and columns     *)
(* numbered from 1.                                                        *)

GAdd(a, b) == <<a[1] + b[1], a[2] + b[2]>>

GMul(a, b) == <<a[1] * b[1] - a[2] * b[2], a[1] * b[2] + a[2] * b[1]>>

Zeros(d) == [i \in 1 .. d |-> [j \in 1 .. d |-> <<0, 0>>]]

MatAdd(A, B) ==
    [i \in 1 .. Len(A) |-> [j \in 1 .. Len(A) |-> GAdd(A[i][j], B[i][j])]]

MatScale(c, A) ==
    [i \in 1 .. Len(A) |-> [j \in 1 .. Len(A) |-> GMul(<<c, 0>>, A[i][j])]]

Kron(A, B) ==
    LET da == Len(A)
        db == Len(B)
    IN  [i \in 1 .. da * db |-> [j \in 1 .. da * db |->
            GMul(A[((i - 1) \div db) + 1][((j - 1) \div db) + 1],
                 B[((i - 1) % db) + 1][((j - 1) % db) + 1])]]

Sigma(l) ==
    CASE l = "I" -> << << <<1, 0>>, <<0, 0>> >>, << <<0, 0>>, <<1, 0>> >> >>
      [] l = "X" -> << << <<0, 0>>, <<1, 0>> >>, << <<1, 0>>, <<0, 0>> >> >>
      [] l = "Y" -> << << <<0, 0>>, <<0, -1>> >>, << <<0, 1>>, <<0, 0>> >> >>
      [] l = "Z" -> << << <<1, 0>>, <<0, 0>> >>, << <<0, 0>>, <<-1, 0>> >> >>

RECURSIVE KronAll(_, _, _)
KronAll(p, qidx, k) ==
    IF k = 0 THEN << << <<1, 0>> >> >>
    ELSE Kron(KronAll(p, qidx, k - 1), Sigma(p.ops[qidx[k]]))

\* PauliString.matrix(qubit_indices_to_include = qidx): the term on the listed
\* qubits, in the list's order, identity where the term has no factor.
PauliMatrix(p, qidx) == MatScale(p.coeff, KronAll(p, qidx, Len(qidx)))

----------------------------------------------------------------------------
(* Observable.matrix *)

\* Mutant of MatAccum: = for +=.
MatAssign(m, t) == t

\* matrix += pauli.matrix(...)
MatAccum(m, t) == MatAdd(m, t)

MatrixCall ==
    /\ pc = "idle"
    /\ pc' = "matrix"
    /\ matrix' = Zeros(Pow2(NQubits(paulis)))
    /\ mwork' = paulis
    /\ UNCHANGED <<paulis, nterms, work, plists, pauli, iter, circuit, ret,
                   built, nargs, cdrVars>>

MatrixStep ==
    /\ pc = "matrix"
    /\ mwork # {}
    /\ \E p \in mwork :
        /\ mwork' = mwork \ {p}
        /\ matrix' = MatAccum(matrix, PauliMatrix(p, QubitIndices(paulis)))
    /\ UNCHANGED <<paulis, nterms, pc, work, plists, pauli, iter, circuit,
                   ret, built, nargs, cdrVars>>

MatrixReturn ==
    /\ pc = "matrix"
    /\ mwork = {}
    /\ pc' = "returned"
    /\ ret' = [op |-> "matrix", val |-> matrix]
    /\ UNCHANGED <<paulis, nterms, work, plists, pauli, iter, mwork, matrix,
                   circuit, built, nargs, cdrVars>>

----------------------------------------------------------------------------
(* Observable._measure_in *)

InputCircuits == {<<>>, <<"H">>}

\* PauliString._basis_rotations: one rotation per X or Y factor.
BasisRotations(p) == {<<q, p.ops[q]>> : q \in {r \in Support(p) : p.ops[r] # "Z"}}

\* PauliString._qubits_to_measure
QubitsToMeasure(p) == Support(p)

\* base_circuit + basis_rotations + cirq.measure(*sorted(qubits_to_measure))
MeasuredCircuit(base, pset) ==
    [base |-> base,
     rotations |-> UNION {BasisRotations(p) : p \in pset},
     measure |-> Sorted(UNION {QubitsToMeasure(p) : p \in pset})]

\* The caller's circuit once _measure_in is through with it: the method
\* works on a deep copy and builds every circuit with +, which makes a new
\* circuit.
CircuitAfterMeasureIn(c, psets) == c

MeasureIn ==
    /\ pc = "idle"
    /\ pc' = "returned"
    /\ \E c \in InputCircuits :
       \E groups \in {PartitionResult(PartitionOf(ord)) : ord \in Perms(paulis)} :
       \E gord \in Perms(groups) :
          /\ circuit' = CircuitAfterMeasureIn(c, gord)
          /\ ret' = [op |-> "measure_in", arg |-> c,
                     val |-> [k \in 1 .. Len(gord) |->
                                MeasuredCircuit(c, gord[k])]]
    /\ UNCHANGED <<paulis, nterms, work, plists, pauli, iter, mwork, matrix,
                   built, nargs, cdrVars>>

----------------------------------------------------------------------------
(* The properties nterms, nqubits and qubit_indices *)

GetNterms ==
    /\ pc = "idle"
    /\ ret' = [op |-> "nterms", val |-> nterms]
    /\ pc' = "returned"
    /\ UNCHANGED <<paulis, nterms, work, plists, pauli, iter, mwork, matrix,
                   circuit, built, nargs, cdrVars>>

GetNqubits ==
    /\ pc = "idle"
    /\ ret' = [op |-> "nqubits", val |-> NQubits(paulis)]
    /\ pc' = "returned"
    /\ UNCHANGED <<paulis, nterms, work, plists, pauli, iter, mwork, matrix,
                   circuit, built, nargs, cdrVars>>

GetQubitIndices ==
    /\ pc = "idle"
    /\ ret' = [op |-> "qubit_indices", val |-> QubitIndices(paulis)]
    /\ pc' = "returned"
    /\ UNCHANGED <<paulis, nterms, work, plists, pauli, iter, mwork, matrix,
                   circuit, built, nargs, cdrVars>>

----------------------------------------------------------------------------
(* The caller *)

\* The caller drops what the call returned; the locals of the call are dead.
Discard ==
    /\ pc = "returned"
    /\ pc' = "idle"
    /\ work' = {}
    /\ plists' = <<>>
    /\ pauli' = None
    /\ iter' = 0
    /\ mwork' = {}
    /\ matrix' = <<>>
    /\ circuit' = None
    /\ ret' = None
    /\ UNCHANGED <<paulis, nterms, built, nargs, cdrVars>>

----------------------------------------------------------------------------
(* Clifford data regression: the training-circuit generator.  Angles are   *)
(* counted in eighths of pi, so a full turn is 16 and the Clifford angles  *)
(* 0, pi/2, pi, 3pi/2 are 0, 4, 8, 12.  A random draw is any outcome of    *)
(* non-zero probability.                                                   *)

CLIFFORD_ANGLES == {0, 4, 8, 12}

InputAngles == {0, 2, 13}

Gates == {[kind |-> "cx", qubits |-> {0, 1}, angle |-> 0]}
         \cup {[kind |-> "rz", qubits |-> {0}, angle |-> a] : a \in InputAngles}

Circuits == UNION {[1 .. n -> Gates] : n \in 0 .. MaxGates}

SelectMethods == {"random", "probabilistic"}

ReplaceMethods == {"random", "probabilistic", "closest"}

IsCliffordAngle(a) == (a % 16) \in CLIFFORD_ANGLES

NonClifford(g) == g.kind = "rz" /\ ~IsCliffordAngle(g.angle)

\* The positions of the non-Clifford rotations, in circuit order.
NonCliffordPositions(c) == Sorted({i \in 1 .. Len(c) : NonClifford(c[i])})

CountNonCliffords(c) == Len(NonCliffordPositions(c))

AllQubits(c) == UNION {c[i].qubits : i \in 1 .. Len(c)}

CircularDistance(a, c) ==
    LET d == (a - c) % 16 IN IF d <= 16 - d THEN d ELSE 16 - d

\* Mutant of ClosestClifford: the nearest multiple of pi/4.
ClosestEighth(a) == ((((a % 16) + 1) \div 2) * 2) % 16

\* The nearest Clifford angle; of two equally near, the smaller.
ClosestClifford(a) ==
    CHOOSE c \in CLIFFORD_ANGLES :
        \A e \in CLIFFORD_ANGLES :
            \/ CircularDistance(a, c) < CircularDistance(a, e)
            \/ CircularDistance(a, c) = CircularDistance(a, e) /\ c <= e

\* round(): to the nearest integer, a half to the even one.
Round(n, d) ==
    LET q == n \div d
        r == n % d
    IN  IF 2 * r < d THEN q
        ELSE IF 2 * r > d THEN q + 1
        ELSE IF q % 2 = 0 THEN q ELSE q + 1

\* Mutant of NumKept: rounded instead of truncated.
NumKeptRound(f, total) == Round(f * total, FDen)

\* The number of rotations left non-Clifford, of total: the tests'
\* int(non_cliffords * fraction_non_clifford), f counted in units of 1 / FDen.
NumKept(f, total) == (f * total) \div FDen

\* _select: the sorted indices to change.  Either method can draw any subset
\* of the right size.
Select(angles, f, method) ==
    {Sorted(S) : S \in {T \in SUBSET (1 .. Len(angles)) :
                          Cardinality(T) = Len(angles) - NumKept(f, Len(angles))}}

\* _replace: the angles that take the place of the given ones.
Replace(angles, method) ==
    IF method = "closest"
    THEN {[k \in 1 .. Len(angles) |-> ClosestClifford(angles[k])]}
    ELSE [1 .. Len(angles) -> CLIFFORD_ANGLES]

\* _map_to_near_clifford: the circuit with the selected rotations replaced.
NearClifford(c, cols, new) ==
    LET pos == NonCliffordPositions(c)
    IN  [i \in 1 .. Len(c) |->
            IF \E j \in 1 .. Len(cols) : pos[cols[j]] = i
            THEN [c[i] EXCEPT !.angle =
                    new[CHOOSE j \in 1 .. Len(cols) : pos[cols[j]] = i]]
            ELSE c[i]]

\* The caller's circuit after a training circuit was made of it.
SourceAfterMap(c) == c

GenerateStep ==
    /\ gpc = "run"
    /\ Len(training) < num
    /\ LET pos == NonCliffordPositions(source)
           angles == [k \in 1 .. Len(pos) |-> source[pos[k]].angle]
       IN  \E cols \in Select(angles, frac, method_select) :
           \E new \in Replace([j \in 1 .. Len(cols) |-> angles[cols[j]]],
                              method_replace) :
              /\ columns' = cols
              /\ replaced' = new
              /\ training' = Append(training, NearClifford(source, cols, new))
    /\ source' = SourceAfterMap(source)
    /\ UNCHANGED <<given, num, frac, method_select, method_replace, gpc,
                   obsVars>>

GenerateReturn ==
    /\ gpc = "run"
    /\ Len(training) = num
    /\ gpc' = "done"
    /\ UNCHANGED <<source, given, num, frac, method_select, method_replace,
                   training, columns, replaced, obsVars>>

----------------------------------------------------------------------------

CdrOff ==
    /\ source = <<>>
    /\ given = <<>>
    /\ num = 0
    /\ frac = 0
    /\ method_select = "random"
    /\ method_replace = "random"
    /\ training = <<>>
    /\ columns = <<>>
    /\ replaced = <<>>
    /\ gpc = "off"

InitFrom(U, maxn) ==
    /\ \E n \in 0 .. maxn : \E args \in [1 .. n -> U] :
        /\ paulis = ObservableInit(args)
        /\ nterms = Cardinality(ObservableInit(args))
        /\ built = ObservableInit(args)
        /\ nargs = n
    /\ pc = "idle"
    /\ work = {}
    /\ plists = <<>>
    /\ pauli = None
    /\ iter = 0
    /\ mwork = {}
    /\ matrix = <<>>
    /\ circuit = None
    /\ ret = None
    /\ CdrOff

Init == InitFrom(UnitTerms, MaxTerms)

InitSigned == InitFrom(SignedTerms, MaxSignedTerms)

InitCdr ==
    /\ source \in Circuits
    /\ given = source
    /\ num \in 0 .. MaxTraining
    /\ frac \in 0 .. FDen
    /\ method_select \in SelectMethods
    /\ method_replace \in ReplaceMethods
    /\ training = <<>>
    /\ columns = <<>>
    /\ replaced = <<>>
    /\ gpc = "run"
    /\ paulis = {}
    /\ nterms = 0
    /\ built = {}
    /\ nargs = 0
    /\ pc = "off"
    /\ work = {}
    /\ plists = <<>>
    /\ pauli = None
    /\ iter = 0
    /\ mwork = {}
    /\ matrix = <<>>
    /\ circuit = None
    /\ ret = None

Next ==
    \/ PartitionCall
    \/ PartitionStep
    \/ PartitionReturn
    \/ MatrixCall
    \/ MatrixStep
    \/ MatrixReturn
    \/ MeasureIn
    \/ GetNterms
    \/ GetNqubits
    \/ GetQubitIndices
    \/ Discard

NextPartition ==
    \/ PartitionCall
    \/ PartitionStep
    \/ PartitionReturn
    \/ Discard

NextMatrix ==
    \/ MatrixCall
    \/ MatrixStep
    \/ MatrixReturn
    \/ GetNqubits
    \/ GetQubitIndices
    \/ Discard

NextCdr ==
    \/ GenerateStep
    \/ GenerateReturn

Spec == Init /\ [][Next]_vars

\* partition() runs in one thread: a loop iteration that can run does run, and
\* so does the return.
SpecPartitionFair ==
    /\ Init
    /\ [][NextPartition]_vars
    /\ WF_vars(PartitionStep)
    /\ WF_vars(PartitionReturn)

SpecMatrix == InitSigned /\ [][NextMatrix]_vars

SpecCdr == InitCdr /\ [][NextCdr]_vars

----------------------------------------------------------------------------
(* Claims about Observable.partition *)

Returned(op) == pc = "returned" /\ ret.op = op

Compatible(S) == \A a \in S, b \in S : CanBeMeasuredWith(a, b)

Placed == UNION {Range(plists[k]) : k \in 1 .. Len(plists)}

\* C1: in every state of the loop of partition(), and in what it returns,
\* every two terms of one group can be measured with each other.
C1_GroupsPairwiseCompatible ==
    /\ \A k \in 1 .. Len(plists) : Compatible(Range(plists[k]))
    /\ Returned("partition") => \A g \in ret.val : Compatible(g)

\* partition() has returned two groups or more, one of them of two terms.
C1_Witness ==
    /\ Returned("partition")
    /\ Cardinality(ret.val) >= 2
    /\ \E g \in ret.val : Cardinality(g) >= 2

\* C2: what partition() returns is a partition of the deduplicated terms:
\* the groups are non-empty, pairwise disjoint and cover exactly the term set;
\* there are at most nterms of them, none only for the empty Observable, and
\* as many as the loop built lists (no two lists collapse into one set).
C2_ReturnsPartition ==
    /\ paulis = built
    /\ nterms = Cardinality(built)
    /\ nterms <= nargs
    /\ Returned("partition") =>
        /\ UNION ret.val = built
        /\ {} \notin ret.val
        /\ \A g \in ret.val, h \in ret.val : g # h => g \cap h = {}
        /\ \A t \in built : Cardinality({g \in ret.val : t \in g}) = 1
        /\ Cardinality(ret.val) <= nterms
        /\ (Cardinality(ret.val) = 0) <=> (built = {})
        /\ Cardinality(ret.val) = Len(plists)

\* An Observable built from a tuple with a repeated term has been partitioned
\* into two groups or more.
C2_Witness ==
    /\ Returned("partition")
    /\ nargs > nterms
    /\ Cardinality(ret.val) >= 2

\* C3: no call changes the Observable: its term set and nterms stay what
\* __init__ made them, partition() starts from the whole term set each time,
\* and _measure_in leaves the caller's circuit as it was passed.
C3_ObservableImmutable ==
    /\ paulis = built
    /\ nterms = Cardinality(built)
    /\ (pc = "partition" /\ iter = 0) => work = built
    /\ pc = "partition" => work \cup Placed = built
    /\ Returned("measure_in") => circuit = ret.arg

\* _measure_in has returned two circuits or more for a non-empty circuit.
C3_Witness ==
    /\ Returned("measure_in")
    /\ ret.arg # <<>>
    /\ Len(ret.val) >= 2
    /\ nterms >= 3

\* The least number of pairwise compatible groups that cover S.
RECURSIVE MinGroups(_)
MinGroups(S) ==
    IF S = {} THEN 0
    ELSE LET x == CHOOSE y \in S : TRUE
             with == {G \in SUBSET S : x \in G /\ Compatible(G)}
             counts == {1 + MinGroups(S \ G) : G \in with}
         IN  Min(counts)

\* C4, as stated: partition() returns the least number of groups, whatever
\* the order in which the terms are processed.
C4_Original_AlwaysMinimum ==
    Returned("partition") => Cardinality(ret.val) = MinGroups(built)

\* C4, amended: partition() returns the least number of groups for every set
\* of at most three terms, whatever the order, and for every larger set under
\* at least one processing order.
C4_MinimumUpToThreeTerms ==
    /\ (Returned("partition") /\ nterms <= 3) =>
          Cardinality(ret.val) = MinGroups(built)
    /\ pc = "idle" =>
        \E ord \in Perms(paulis) : Len(PartitionOf(ord)) = MinGroups(built)

\* partition() has returned the least number of groups for three terms that
\* need two groups.
C4_Witness ==
    /\ Returned("partition")
    /\ nterms = 3
    /\ Cardinality(ret.val) = 2
    /\ MinGroups(built) = 2

\* C8: each iteration appends the popped term to the first group all of whose
\* members are compatible with it, or, when there is none, to a new group at
\* the end: every group before the one it lands in has a member that is
\* incompatible with it, and no other group changes.
C8_FirstFit ==
    [][(pc = "partition" /\ iter' = iter + 1) =>
        \E j \in 1 .. Len(plists') :
            /\ plists'[j] = (IF j <= Len(plists) THEN plists[j] ELSE <<>>)
                              \o <<pauli'>>
            /\ \A m \in 1 .. Len(plists'[j]) - 1 :
                  CanBeMeasuredWith(pauli', plists'[j][m])
            /\ \A i \in 1 .. j - 1 :
                  \E m \in 1 .. Len(plists[i]) :
                      ~CanBeMeasuredWith(pauli', plists[i][m])
            /\ Len(plists') = (IF j <= Len(plists) THEN Len(plists)
                                                   ELSE Len(plists) + 1)
            /\ \A i \in 1 .. Len(plists) : i # j => plists'[i] = plists[i]
      ]_vars

\* The term popped last went into the second group, which held a term
\* already, past a first group it is incompatible with.
C8_Witness ==
    /\ pc = "partition"
    /\ Len(plists) >= 3
    /\ Len(plists[2]) >= 2
    /\ plists[2][Len(plists[2])] = pauli

\* C9: no two groups that partition() returns can be merged: their union
\* holds two terms that are incompatible.
C9_NoTwoGroupsMerge ==
    /\ \A i \in 1 .. Len(plists), j \in 1 .. Len(plists) :
          i < j => ~Compatible(Range(plists[i]) \cup Range(plists[j]))
    /\ Returned("partition") =>
          \A g \in ret.val, h \in ret.val : g # h => ~Compatible(g \cup h)

\* partition() has returned three groups or more.
C9_Witness ==
    /\ Returned("partition")
    /\ Cardinality(ret.val) >= 3
    /\ \E g \in ret.val : Cardinality(g) >= 2

RECURSIVE SumLen(_, _)
SumLen(pl, k) == IF k = 0 THEN 0 ELSE Len(pl[k]) + SumLen(pl, k - 1)

\* After i iterations nterms - i terms are left and the i terms taken are i
\* distinct terms, each in the lists once.
LoopVariant ==
    /\ pc = "partition" =>
        /\ iter + Cardinality(work) = nterms
        /\ work \subseteq built
        /\ Placed = built \ work
        /\ SumLen(plists, Len(plists)) = iter
        /\ Cardinality(Placed) = iter
    /\ Returned("partition") =>
        /\ iter = nterms
        /\ work = {}
        /\ SumLen(plists, Len(plists)) = nterms

\* C10: partition() terminates: every iteration of its loop takes exactly one
\* term out of the working set, each term is taken once, and the call returns
\* after exactly nterms iterations with the working set empty.
C10_LoopTerminates ==
    /\ []LoopVariant
    /\ [][(pc = "partition" /\ pc' = "partition") =>
            /\ iter' = iter + 1
            /\ Cardinality(work') = Cardinality(work) - 1
            /\ work' \subseteq work]_vars
    /\ (pc = "partition") ~> Returned("partition")

\* partition() has returned after four iterations.
C10_Witness ==
    /\ Returned("partition")
    /\ iter = 4
    /\ nterms = 4

----------------------------------------------------------------------------
(* Claims about Observable.matrix *)

\* Entry (a, b) of the one-qubit matrix of letter l, a and b in {0, 1}.
LetterEntry(l, a, b) ==
    CASE l = "I" -> IF a = b THEN <<1, 0>> ELSE <<0, 0>>
      [] l = "X" -> IF a # b THEN <<1, 0>> ELSE <<0, 0>>
      [] l = "Y" -> IF a = b THEN <<0, 0>>
                    ELSE IF a = 0 THEN <<0, -1>> ELSE <<0, 1>>
      [] l = "Z" -> IF a # b THEN <<0, 0>>
                    ELSE IF a = 0 THEN <<1, 0>> ELSE <<-1, 0>>

\* The qubits of S in ascending order.
Ascending(S) ==
    CHOOSE q \in [1 .. Cardinality(S) -> S] :
        \A i \in 1 .. Cardinality(S), j \in 1 .. Cardinality(S) :
            i < j => q[i] < q[j]

\* Bit k, the first being the most significant, of row or column r of a
\* matrix on n qubits, r counted from 0.
Bit(r, k, n) == (r \div Pow2(n - k)) % 2

RECURSIVE TermEntry(_, _, _, _, _)
TermEntry(t, qs, r, c, k) ==
    IF k = 0 THEN <<t.coeff, 0>>
    ELSE GMul(TermEntry(t, qs, r, c, k - 1),
              LetterEntry(t.ops[qs[k]], Bit(r, k, Len(qs)), Bit(c, k, Len(qs))))

RECURSIVE SumEntries(_, _, _, _)
SumEntries(ts, qs, r, c) ==
    IF ts = {} THEN <<0, 0>>
    ELSE LET t == CHOOSE x \in ts : TRUE
         IN  GAdd(TermEntry(t, qs, r, c, Len(qs)),
                  SumEntries(ts \ {t}, qs, r, c))

\* C7: matrix() returns a 2^n x 2^n matrix, n the number of qubits some term
\* acts on, whose entries are the sums over the terms of the entries of each
\* term laid out on all n qubits in ascending order, identity where the term
\* has no factor; for the empty Observable it is the 1 x 1 zero matrix.
C7_MatrixIsSumOfTerms ==
    Returned("matrix") =>
        LET qs == Ascending(UNION {Support(t) : t \in built})
            d == Pow2(Len(qs))
        IN  /\ Len(ret.val) = d
            /\ \A r \in 1 .. d :
                /\ Len(ret.val[r]) = d
                /\ \A c \in 1 .. d :
                      ret.val[r][c] = SumEntries(built, qs, r - 1, c - 1)
            /\ built = {} => ret.val = << << <<0, 0>> >> >>

\* matrix() has returned the 4 x 4 matrix of three terms, one of them on one
\* qubit only, one with a Y and one with sign -1.
C7_Witness ==
    /\ Returned("matrix")
    /\ nterms = 3
    /\ Len(ret.val) = 4
    /\ \E t \in built : Cardinality(Support(t)) = 1
    /\ \E t \in built : \E q \in Qubits : t.ops[q] = "Y"
    /\ \E t \in built : t.coeff = -1
    /\ \E r \in 1 .. 4, c \in 1 .. 4 : ret.val[r][c] # <<0, 0>>

----------------------------------------------------------------------------
(* Claims about the training-circuit generator *)

Increasing(q) == \A i \in 1 .. Len(q), j \in 1 .. Len(q) : i < j => q[i] < q[j]

TrainingShape(k) ==
    /\ Len(training[k]) = Len(given)
    /\ Cardinality(AllQubits(training[k])) = Cardinality(AllQubits(given))
    /\ \A i \in 1 .. Len(given) :
          \/ training[k][i] = given[i]
          \/ NonClifford(given[i]) /\ training[k][i].kind = "rz"
             /\ training[k][i].qubits = given[i].qubits

ReplacementClosure ==
    /\ Len(replaced) = Len(columns)
    /\ \A k \in 1 .. Len(replaced) : replaced[k] \in {0, 4, 8, 12}
    /\ Increasing(columns)
    /\ \A k \in 1 .. Len(columns) :
          columns[k] \in 1 .. CountNonCliffords(given)

====
